---- MODULE Spec2Model ----
\* Star-event classification (four-detector ensemble), time bucketing and the
\* weekly correlation analysis of the three scripts
\*   scripts/analyze_fake_real_correlation.py   (CorrelationAnalyzer)
\*   scripts/create_star_timeline_graph.py      (StarTimelineVisualizer)
\*   scripts/run_advanced_on_collected.py       (AdvancedAnalyzer)
\* Time is kept to the minute.  An ISO-8601 string is a record of its calendar
\* fields; parsing turns it into a day ordinal and a minute of the day.
EXTENDS Integers, Sequences, FiniteSets, TLC

VARIABLES
    accounts,     \* self.accounts: the loaded records, in file order
    entry,        \* which script's main() runs: "correlation", "timeline", "standalone"
    pc,           \* position in main(): "start", "detected", "analyzed", "temporal",
                  \* "dormant", "activity", "done", "failed"
    det,          \* the detectors' sets: basic, temporal, dormant, low, all; clusters
    wk,           \* analyze_weekly_correlation: keys, real_counts, fake_counts, ...
    daily,        \* create_timeline_graph: dates, real_counts, fake_counts
    rep           \* run_advanced_on_collected generate_report: totals

vars == <<accounts, entry, pc, det, wk, daily, rep>>

------------------------------------------------------------------------------
\* Program constants

\* detect_temporal_clustering(threshold_minutes=60)
ThresholdMinutes == 60
\* len(current_cluster) >= 10
MinClusterSize == 10
\* account_age_days > 365
DormantAgeDays == 365
\* public_repos < 3
DormantMaxRepos == 3
\* followers < 5
LowFollowers == 5
\* following < 10
LowFollowing == 10
\* len(real_counts) > 2
MinPeriods == 2
\* len(weeks_2024) > 4
MinPeriods2024 == 4
\* timedelta: minutes in a day
MinutesPerDay == 1440

------------------------------------------------------------------------------
\* Field values.  A JSON key that is missing from a record is "absent" (for a
\* string or a boolean) or NoVal (for a count).

NoVal == -1

\* acc.get(key, 0)
GetOr0(v) == IF v = NoVal THEN 0 ELSE v

\* An ISO-8601 UTC timestamp string "YYYY-MM-DDTHH:MM:00Z".
Iso(y, mo, d, h, mi) == [tag |-> "iso", y |-> y, mo |-> mo, d |-> d, h |-> h, mi |-> mi]
\* The key is missing from the record.
AbsentTs == [tag |-> "absent", y |-> 0, mo |-> 0, d |-> 0, h |-> 0, mi |-> 0]
\* The key holds a string that datetime.fromisoformat rejects.
BadTs == [tag |-> "bad", y |-> 0, mo |-> 0, d |-> 0, h |-> 0, mi |-> 0]

------------------------------------------------------------------------------
\* The proleptic Gregorian calendar of Python's datetime.

IsLeap(y) == (y % 4 = 0) /\ ((y % 100 # 0) \/ (y % 400 = 0))

DaysBeforeYear(y) ==
    LET p == y - 1 IN p * 365 + (p \div 4) - (p \div 100) + (p \div 400)

DaysInMonth(y, m) ==
    IF m = 2 THEN (IF IsLeap(y) THEN 29 ELSE 28)
    ELSE IF m \in {4, 6, 9, 11} THEN 30 ELSE 31

RECURSIVE DaysBeforeMonth(_, _)
DaysBeforeMonth(y, m) ==
    IF m <= 1 THEN 0 ELSE DaysBeforeMonth(y, m - 1) + DaysInMonth(y, m - 1)

\* date.toordinal(): 1 for 0001-01-01
Ymd2Ord(y, m, d) == DaysBeforeYear(y) + DaysBeforeMonth(y, m) + d

\* The ordinal of the Monday that starts ISO week 1 of the year.
IsoWeek1Monday(year) ==
    LET firstday     == Ymd2Ord(year, 1, 1)
        firstweekday == (firstday + 6) % 7
        week1monday  == firstday - firstweekday
    IN  IF firstweekday > 3 THEN week1monday + 7 ELSE week1monday

\* date.isocalendar(): <<ISO year, ISO week>> of the day with this ordinal.
IsoCalendar(year, today) ==
    LET w1   == IsoWeek1Monday(year)
        week == (today - w1) \div 7
    IN  IF today < w1
        THEN <<year - 1, ((today - IsoWeek1Monday(year - 1)) \div 7) + 1>>
        ELSE IF week >= 52 /\ today >= IsoWeek1Monday(year + 1)
        THEN <<year + 1, 1>>
        ELSE <<year, week + 1>>

\* datetime.fromisoformat(s.replace('Z', '+00:00')) succeeds.
Parsable(s) == s.tag = "iso"

\* datetime.fromisoformat(...): the day ordinal and the minute of the day.
FromIso(s) == [ord |-> Ymd2Ord(s.y, s.mo, s.d), min |-> s.h * 60 + s.mi, y |-> s.y]

\* (a - b).total_seconds() / 60
DiffMinutes(a, b) == (a.ord - b.ord) * MinutesPerDay + (a.min - b.min)

\* (a - b).days: whole days, rounded toward minus infinity
DiffDays(a, b) == DiffMinutes(a, b) \div MinutesPerDay

------------------------------------------------------------------------------
\* Sequence helpers

Range(s) == {s[i] : i \in 1..Len(s)}

RECURSIVE SeqOfSet(_)
SeqOfSet(S) ==
    IF S = {} THEN <<>>
    ELSE LET x == CHOOSE y \in S : \A z \in S : y <= z IN <<x>> \o SeqOfSet(S \ {x})

------------------------------------------------------------------------------
\* Basic Flag Detector

\* acc.get('is_suspicious') or acc.get('status') == 'deleted'
BasicFlagged(acc) == acc.is_suspicious = "true" \/ acc.status = "deleted"

\* basic_fake = set() ... basic_fake.add(acc['username'])
BasicFake(accts) == {accts[i].username : i \in {j \in 1..Len(accts) : BasicFlagged(accts[j])}}

\* self.basic_legit: the records that are not basic-flagged, in file order
BasicLegit(accts) == SelectSeq(accts, LAMBDA a : ~BasicFlagged(a))

------------------------------------------------------------------------------
\* Temporal Cluster Detector

\* a candidate pool that also leaves out what the low-activity detector flags
TimestampsWithoutLowActivity(accts) ==
    LET legit == SelectSeq(accts, LAMBDA a :
                     ~BasicFlagged(a) /\ ~(GetOr0(a.public_repos) = 0 /\ GetOr0(a.followers) < 5
                                           /\ GetOr0(a.following) < 10))
    IN  [i \in 1..Len(legit) |-> [username |-> legit[i].username,
                                  ts |-> FromIso(legit[i].starred_at)]]

\* timestamps.append((acc['username'], ts)) for the records not basic-flagged
Timestamps(accts) ==
    LET legit == BasicLegit(accts)
    IN  [i \in 1..Len(legit) |-> [username |-> legit[i].username,
                                  ts |-> FromIso(legit[i].starred_at)]]

\* x[1] <= y[1] for two (username, ts) pairs: the sort key is the datetime
TsLeq(a, b) == a.ts.ord < b.ts.ord \/ (a.ts.ord = b.ts.ord /\ a.ts.min <= b.ts.min)

\* one step of the stable sort: x goes after every element whose key is <= its own
\* (sorted is in ascending order, so these are its first k elements)
InsertByTs(sorted, x) ==
    LET k == Cardinality({j \in 1..Len(sorted) : TsLeq(sorted[j], x)})
    IN  SubSeq(sorted, 1, k) \o <<x>> \o SubSeq(sorted, k + 1, Len(sorted))

\* the elements lo..hi of s put, in list order, into the sorted list: the first half
\* of the range, then the second half into the (non-empty) list the first leaves
RECURSIVE SortInto(_, _, _, _)
SortInto(s, lo, hi, sorted) ==
    IF lo > hi THEN sorted
    ELSE IF lo = hi THEN InsertByTs(sorted, s[lo])
    ELSE LET mid   == (lo + hi) \div 2
             first == SortInto(s, lo, mid, sorted)
         IN  IF first = <<>> THEN first ELSE SortInto(s, mid + 1, hi, first)

\* a list left in file order
SortByTsForgotten(s) == s

\* timestamps.sort(key=lambda x: x[1]): stable, ascending
SortByTs(s) == SortInto(s, 1, Len(s), <<>>)

\* a gap test that leaves out a gap equal to the threshold
GapJoinsStrict(diff_minutes, threshold_minutes) == diff_minutes < threshold_minutes

\* if diff_minutes <= threshold_minutes
GapJoins(diff_minutes, threshold_minutes) == diff_minutes <= threshold_minutes

\* a size test that takes a cluster of nine
ClusterQualifiesFromNine(cluster) == Len(cluster) >= MinClusterSize - 1

\* if len(current_cluster) >= 10
ClusterQualifies(cluster) == Len(cluster) >= MinClusterSize

\* one pass of the loop body: x joins the open cluster, or closes it and opens a new
\* one; st holds current_cluster and the clusters appended so far
ClusterStep(x, st, threshold_minutes) ==
    LET last_ts == st.current[Len(st.current)].ts
        diff_minutes == DiffMinutes(x.ts, last_ts)
    IN  IF GapJoins(diff_minutes, threshold_minutes)
        THEN [current |-> Append(st.current, x), clusters |-> st.clusters]
        ELSE [current |-> <<x>>,
              clusters |-> IF ClusterQualifies(st.current)
                           THEN Append(st.clusters, st.current) ELSE st.clusters]

\* for username, ts in timestamps[1:], on the elements lo..hi in order, from st: the
\* passes over the first half of the range, then those over the second half from
\* the state the first leaves (current_cluster is never empty)
RECURSIVE ClusterLoop(_, _, _, _, _)
ClusterLoop(ts, lo, hi, st, threshold_minutes) ==
    IF lo > hi THEN st
    ELSE IF lo = hi THEN ClusterStep(ts[lo], st, threshold_minutes)
    ELSE LET mid   == (lo + hi) \div 2
             first == ClusterLoop(ts, lo, mid, st, threshold_minutes)
         IN  IF first.current = <<>> THEN first
             ELSE ClusterLoop(ts, mid + 1, hi, first, threshold_minutes)

\* the last cluster is checked after the loop
CloseLast(st) ==
    IF ClusterQualifies(st.current) THEN Append(st.clusters, st.current) ELSE st.clusters

\* the qualifying clusters, in time order
Clusters(accts, threshold_minutes) ==
    LET ts == SortByTs(Timestamps(accts))
    IN  IF ts = <<>> THEN <<>>
        ELSE CloseLast(ClusterLoop(ts, 2, Len(ts), [current |-> <<ts[1]>>, clusters |-> <<>>],
                                   threshold_minutes))

\* the usernames of the members of a list of clusters
ClusterMembers(clusters) ==
    UNION {{clusters[c][k].username : k \in 1..Len(clusters[c])} : c \in 1..Len(clusters)}

\* a record the temporal detector parses and cannot
TemporalRaises(accts) ==
    \E i \in 1..Len(accts) : ~BasicFlagged(accts[i]) /\ ~Parsable(accts[i].starred_at)

\* CorrelationAnalyzer.detect_temporal_clustering
detect_temporal_clustering(accts, threshold_minutes) ==
    ClusterMembers(Clusters(accts, threshold_minutes))

\* StarTimelineVisualizer.detect_temporal_clustering
timeline_detect_temporal_clustering(accts, threshold_minutes) ==
    ClusterMembers(Clusters(accts, threshold_minutes))

\* AdvancedAnalyzer.analyze_temporal_clustering: clusters and suspicious_accounts
analyze_temporal_clustering(accts, threshold_minutes) ==
    LET clusters == Clusters(accts, threshold_minutes)
    IN  [clusters |-> clusters, suspicious_accounts |-> ClusterMembers(clusters)]

------------------------------------------------------------------------------
\* Dormant Account Detector

\* a dormant test that takes an age of exactly 365 days
DormantConditionInclusive(account_age_days, public_repos) ==
    account_age_days >= DormantAgeDays /\ public_repos < DormantMaxRepos

\* if account_age_days > 365 and acc.get('public_repos', 0) < 3
DormantCondition(account_age_days, public_repos) ==
    account_age_days > DormantAgeDays /\ public_repos < DormantMaxRepos

\* account_age_days = (starred - created).days
AccountAgeDays(acc) == DiffDays(FromIso(acc.starred_at), FromIso(acc.account_created))

\* a record the dormant detector parses and cannot: acc['account_created'] of a
\* record without the key raises KeyError, an unparsable string ValueError
DormantRaises(accts) ==
    \E i \in 1..Len(accts) :
        /\ ~BasicFlagged(accts[i])
        /\ (~Parsable(accts[i].account_created) \/ ~Parsable(accts[i].starred_at))

\* the indices the dormant loop flags
DormantIndices(accts) ==
    {i \in 1..Len(accts) :
        /\ ~BasicFlagged(accts[i])
        /\ DormantCondition(AccountAgeDays(accts[i]), GetOr0(accts[i].public_repos))}

\* CorrelationAnalyzer.detect_dormant_accounts
detect_dormant_accounts(accts) == {accts[i].username : i \in DormantIndices(accts)}

\* StarTimelineVisualizer.detect_dormant_accounts
timeline_detect_dormant_accounts(accts) == {accts[i].username : i \in DormantIndices(accts)}

\* AdvancedAnalyzer.analyze_dormant_accounts: suspicious_count counts records,
\* suspicious_accounts is the list of their usernames
analyze_dormant_accounts(accts) ==
    [suspicious_count    |-> Cardinality(DormantIndices(accts)),
     suspicious_accounts |-> {accts[i].username : i \in DormantIndices(accts)}]

------------------------------------------------------------------------------
\* Low-Activity Detector

\* a low-activity test that takes 5 followers
LowActivityConditionInclusive(repos, followers, following) ==
    repos = 0 /\ followers <= LowFollowers /\ following < LowFollowing

\* if repos == 0 and followers < 5 and following < 10
LowActivityCondition(repos, followers, following) ==
    repos = 0 /\ followers < LowFollowers /\ following < LowFollowing

\* the indices the low-activity loop flags
LowActivityIndices(accts) ==
    {i \in 1..Len(accts) :
        /\ ~BasicFlagged(accts[i])
        /\ LowActivityCondition(GetOr0(accts[i].public_repos), GetOr0(accts[i].followers),
                                GetOr0(accts[i].following))}

\* CorrelationAnalyzer.detect_low_activity
detect_low_activity(accts) == {accts[i].username : i \in LowActivityIndices(accts)}

\* StarTimelineVisualizer.detect_low_activity
timeline_detect_low_activity(accts) == {accts[i].username : i \in LowActivityIndices(accts)}

\* AdvancedAnalyzer.analyze_activity_diversity
analyze_activity_diversity(accts) ==
    [suspicious_count    |-> Cardinality(LowActivityIndices(accts)),
     suspicious_accounts |-> {accts[i].username : i \in LowActivityIndices(accts)}]

------------------------------------------------------------------------------
\* Combination

\* a combination that leaves the basic set out
CombineWithoutBasic(basic, temporal, dormant, low) == temporal \cup dormant \cup low

\* all_fake = basic_fake | temporal_fake | dormant_fake | low_activity
Combine(basic, temporal, dormant, low) == basic \cup temporal \cup dormant \cup low

------------------------------------------------------------------------------
\* Time bucketing

\* str(n) as character codes ('0' is 48)
RECURSIVE Digits(_)
Digits(n) == IF n < 10 THEN <<48 + n>> ELSE Append(Digits(n \div 10), 48 + (n % 10))

\* a week number without its leading zero
FormatUnpadded(n) == Digits(n)

\* f"{n:02d}"
Format02d(n) == IF n < 10 THEN <<48, 48 + n>> ELSE Digits(n)

\* week_key = f"{iso_week[0]}-W{iso_week[1]:02d}" ('-' is 45, 'W' is 87)
FormatWeekKey(iso_week) == Digits(iso_week[1]) \o <<45, 87>> \o Format02d(iso_week[2])

\* the week key of a record's starred_at
WeekKey(acc) ==
    LET s == acc.starred_at
    IN  FormatWeekKey(IsoCalendar(s.y, Ymd2Ord(s.y, s.mo, s.d)))

\* datetime.fromisoformat(...).date(): dates compare by their ordinal
DateOf(acc) == Ymd2Ord(acc.starred_at.y, acc.starred_at.mo, acc.starred_at.d)

\* a < b for two Python strings (sequences of character codes)
RECURSIVE StrLess(_, _)
StrLess(a, b) ==
    IF b = <<>> THEN FALSE
    ELSE IF a = <<>> THEN TRUE
    ELSE IF a[1] # b[1] THEN a[1] < b[1]
    ELSE StrLess(Tail(a), Tail(b))

\* sorted(set(...)) of strings
RECURSIVE SortedStrs(_)
SortedStrs(S) ==
    IF S = {} THEN <<>>
    ELSE LET x == CHOOSE y \in S : \A z \in S : y = z \/ StrLess(y, z)
         IN  <<x>> \o SortedStrs(S \ {x})

\* a counter that stores 1 instead of adding 1
IncrOverwrites(d, key) == [k \in DOMAIN d \cup {key} |-> IF k = key THEN 1 ELSE d[k]]

\* d[key] += 1 on a defaultdict(int)
Incr(d, key) ==
    IF key \in DOMAIN d THEN [d EXCEPT ![key] = @ + 1]
    ELSE [k \in DOMAIN d \cup {key} |-> IF k = key THEN 1 ELSE d[k]]

\* d[key] read on a defaultdict(int)
ReadCount(d, key) == IF key \in DOMAIN d THEN d[key] ELSE 0

\* the empty defaultdict
EmptyDict == [k \in {} |-> 0]

\* a record bucketing parses and cannot (every record is parsed, flagged or not)
BucketRaises(accts) == \E i \in 1..Len(accts) : ~Parsable(accts[i].starred_at)

\* one pass of the weekly loop body, on record i
WeeklyStep(acc, fake_usernames, d) ==
    IF acc.username \in fake_usernames
    THEN [real |-> d.real, fake |-> Incr(d.fake, WeekKey(acc))]
    ELSE [real |-> Incr(d.real, WeekKey(acc)), fake |-> d.fake]

\* for acc in self.accounts: ... weekly_fake[week_key] += 1 / weekly_real[week_key] += 1
\* on the records lo..hi in file order, from the dicts d: the passes over the first
\* half of the range, then those over the second half from the dicts the first
\* leaves (a pass leaves a key in one of them)
RECURSIVE WeeklyLoop(_, _, _, _, _)
WeeklyLoop(accts, lo, hi, fake_usernames, d) ==
    IF lo > hi THEN d
    ELSE IF lo = hi THEN WeeklyStep(accts[lo], fake_usernames, d)
    ELSE LET mid   == (lo + hi) \div 2
             first == WeeklyLoop(accts, lo, mid, fake_usernames, d)
         IN  IF DOMAIN first.real = {} /\ DOMAIN first.fake = {} THEN first
             ELSE WeeklyLoop(accts, mid + 1, hi, fake_usernames, first)

\* one pass of the daily loop body, on record i
DailyStep(acc, fake_usernames, d) ==
    IF acc.username \in fake_usernames
    THEN [real |-> d.real, fake |-> Incr(d.fake, DateOf(acc))]
    ELSE [real |-> Incr(d.real, DateOf(acc)), fake |-> d.fake]

\* for acc in self.accounts: ... daily_fake[date] += 1 / daily_real[date] += 1
\* on the records lo..hi in file order, from the dicts d
RECURSIVE DailyLoop(_, _, _, _, _)
DailyLoop(accts, lo, hi, fake_usernames, d) ==
    IF lo > hi THEN d
    ELSE IF lo = hi THEN DailyStep(accts[lo], fake_usernames, d)
    ELSE LET mid   == (lo + hi) \div 2
             first == DailyLoop(accts, lo, mid, fake_usernames, d)
         IN  IF DOMAIN first.real = {} /\ DOMAIN first.fake = {} THEN first
             ELSE DailyLoop(accts, mid + 1, hi, fake_usernames, first)

\* real_counts / fake_counts: the counts of the sorted periods, read from the dict
CountsOf(d, periods) == [i \in 1..Len(periods) |-> ReadCount(d, periods[i])]

\* the three parallel lists built from the two dicts and the sorted periods
BucketLists(d, periods) ==
    [periods |-> periods, real_counts |-> CountsOf(d.real, periods),
     fake_counts |-> CountsOf(d.fake, periods)]

\* all_weeks = sorted(set(list(weekly_real.keys()) + list(weekly_fake.keys())))
AllWeeks(d) == SortedStrs(DOMAIN d.real \cup DOMAIN d.fake)

\* all_dates = sorted(set(list(daily_real.keys()) + list(daily_fake.keys())))
AllDates(d) == SeqOfSet(DOMAIN d.real \cup DOMAIN d.fake)

\* all_weeks (periods), real_counts, fake_counts of analyze_weekly_correlation
WeeklyFromDicts(d) == BucketLists(d, AllWeeks(d))
WeeklyBuckets(accts, fake_usernames) ==
    WeeklyFromDicts(WeeklyLoop(accts, 1, Len(accts), fake_usernames,
                               [real |-> EmptyDict, fake |-> EmptyDict]))

\* all_dates (periods), real_counts, fake_counts of create_timeline_graph
DailyFromDicts(d) == BucketLists(d, AllDates(d))
DailyBuckets(accts, fake_usernames) ==
    DailyFromDicts(DailyLoop(accts, 1, Len(accts), fake_usernames,
                               [real |-> EmptyDict, fake |-> EmptyDict]))

------------------------------------------------------------------------------
\* Correlation and anomaly engine

RECURSIVE SumSeq(_)
SumSeq(s) == IF s = <<>> THEN 0 ELSE s[1] + SumSeq(Tail(s))

\* a*b, index by index
Products(a, b) == [i \in 1..Len(a) |-> a[i] * b[i]]

\* correlation is None
NoCorrelation == [tag |-> "None", cov |-> 0, vx |-> 0, vy |-> 0]

\* stats.pearsonr(x, y): r = cov / sqrt(vx * vy), kept as its three integer parts
\* (each scaled by n*n); r is nan when vx * vy = 0 (a constant input)
Pearsonr(x, y) ==
    LET n == Len(x)
    IN  [tag |-> "r",
         cov |-> n * SumSeq(Products(x, y)) - SumSeq(x) * SumSeq(y),
         vx  |-> n * SumSeq(Products(x, x)) - SumSeq(x) * SumSeq(x),
         vy  |-> n * SumSeq(Products(y, y)) - SumSeq(y) * SumSeq(y)]

\* r < -(p/q) for a computed r (false for nan), with p, q > 0
RBelowMinus(r, p, q) ==
    r.tag = "r" /\ r.vx * r.vy > 0 /\ r.cov < 0 /\ r.cov * r.cov * q * q > p * p * r.vx * r.vy

\* r > p/q for a computed r (false for nan), with p, q > 0
RAbove(r, p, q) ==
    r.tag = "r" /\ r.vx * r.vy > 0 /\ r.cov > 0 /\ r.cov * r.cov * q * q > p * p * r.vx * r.vy

\* if correlation < -0.3 ... elif correlation > 0.3 ... else
Regime(r) ==
    IF RBelowMinus(r, 3, 10) THEN "negative"
    ELSE IF RAbove(r, 3, 10) THEN "positive" ELSE "weak"

\* w.startswith('2024') ('2' is 50, '0' is 48, '4' is 52)
StartsWith2024(w) == Len(w) >= 4 /\ SubSeq(w, 1, 4) = <<50, 48, 50, 52>>

\* weeks_2024 = [w for w in all_weeks if w.startswith('2024')], as indices of all_weeks
Weeks2024(all_weeks) == SelectSeq([i \in 1..Len(all_weeks) |-> i],
                                  LAMBDA i : StartsWith2024(all_weeks[i]))

\* an inverse test that takes a real count that did not change
IsInverseOrFlat(real_change, fake_change) ==
    (real_change <= 0 /\ fake_change > 0) \/ (real_change >= 0 /\ fake_change < 0)

\* (real_change < 0 and fake_change > 0) or (real_change > 0 and fake_change < 0)
IsInverse(real_change, fake_change) ==
    (real_change < 0 /\ fake_change > 0) \/ (real_change > 0 /\ fake_change < 0)

Abs(n) == IF n < 0 THEN -n ELSE n

\* elif abs(real_change) > 5 or abs(fake_change) > 5
IsNotableSame(real_change, fake_change) ==
    ~IsInverse(real_change, fake_change) /\ (Abs(real_change) > 5 \/ Abs(fake_change) > 5)

\* inverse_weeks after the loop for i in range(1, len(weeks_2024))
InverseWeeks(real, fake) ==
    Cardinality({i \in 2..Len(real) : IsInverse(real[i] - real[i-1], fake[i] - fake[i-1])})

\* same_direction_weeks after the same loop
SameDirectionWeeks(real, fake) ==
    Cardinality({i \in 2..Len(real) : IsNotableSame(real[i] - real[i-1], fake[i] - fake[i-1])})

\* inverse_pct = inverse_weeks / total_weeks * 100 if total_weeks > 0 else 0,
\* kept as the fraction num / den
InversePct(inverse_weeks, total_weeks) ==
    IF total_weeks > 0 THEN [num |-> inverse_weeks * 100, den |-> total_weeks]
    ELSE [num |-> 0, den |-> 1]

\* if inverse_pct > 40 ... elif inverse_pct > 25
PrintedEvidence(pct) ==
    IF pct.num > 40 * pct.den THEN "strong"
    ELSE IF pct.num > 25 * pct.den THEN "moderate" ELSE "none"

\* a spike test that takes either deviation alone
IsSpikeEither(real, fake, i, window) ==
    LET real_sum == SumSeq(SubSeq(real, i - window, i - 1))
        fake_sum == SumSeq(SubSeq(fake, i - window, i - 1))
    IN  \/ window * real[i] - real_sum < -5 * window
        \/ window * fake[i] - fake_sum > 10 * window

\* real_dev < -5 and fake_dev > 10, with real_dev = curr - mean(previous window)
\* (both sides multiplied by the window)
IsSpike(real, fake, i, window) ==
    LET real_sum == SumSeq(SubSeq(real, i - window, i - 1))
        fake_sum == SumSeq(SubSeq(fake, i - window, i - 1))
    IN  /\ window * real[i] - real_sum < -5 * window
        /\ window * fake[i] - fake_sum > 10 * window

\* the periods printed by the moving-average loop: for i in range(window, len(weeks_2024))
\* (Python indices from 0; here from 1)
Spikes(real, fake, window) == {i \in (window + 1)..Len(real) : IsSpike(real, fake, i, window)}

\* an overall part that is computed from two periods on
OverallPartFromTwo(real_counts, fake_counts, r) ==
    IF Len(real_counts) >= MinPeriods
    THEN [correlation |-> r, regime |-> Regime(r)]
    ELSE [correlation |-> NoCorrelation, regime |-> "none"]

\* the part of the result that is computed when len(real_counts) > 2
OverallPart(real_counts, fake_counts, r) ==
    IF Len(real_counts) > MinPeriods
    THEN [correlation |-> r, regime |-> Regime(r)]
    ELSE [correlation |-> NoCorrelation, regime |-> "none"]

\* the part of the result that is computed when len(weeks_2024) > 4
Part2024(real_2024, fake_2024, r_2024, inverse_weeks, inverse_pct) ==
    IF Len(real_2024) > MinPeriods2024
    THEN [correlation_2024     |-> r_2024,
          inverse_weeks_2024   |-> inverse_weeks,
          same_direction_weeks |-> SameDirectionWeeks(real_2024, fake_2024),
          inverse_pct_2024     |-> inverse_pct,
          printed_2024         |-> PrintedEvidence(inverse_pct)]
    ELSE [correlation_2024     |-> NoCorrelation,
          inverse_weeks_2024   |-> 0,
          same_direction_weeks |-> 0,
          inverse_pct_2024     |-> InversePct(0, 0),
          printed_2024         |-> "none"]

\* a 2024 part that uses the overall minimum length
Analyze2024FromThree(real_2024, fake_2024, inverse_weeks) ==
    IF Len(real_2024) > MinPeriods
    THEN [correlation_2024     |-> Pearsonr(real_2024, fake_2024),
          inverse_weeks_2024   |-> inverse_weeks,
          same_direction_weeks |-> SameDirectionWeeks(real_2024, fake_2024),
          inverse_pct_2024     |-> InversePct(inverse_weeks, Len(real_2024) - 1),
          printed_2024         |-> PrintedEvidence(InversePct(inverse_weeks, Len(real_2024) - 1))]
    ELSE [correlation_2024     |-> NoCorrelation,
          inverse_weeks_2024   |-> 0,
          same_direction_weeks |-> 0,
          inverse_pct_2024     |-> InversePct(0, 0),
          printed_2024         |-> "none"]

\* the 2024 part, from the 2024 counts
Analyze2024(real_2024, fake_2024, inverse_weeks) ==
    Part2024(real_2024, fake_2024, Pearsonr(real_2024, fake_2024), inverse_weeks,
             InversePct(inverse_weeks, Len(real_2024) - 1))

\* if len(weeks_2024) >= 8: window = 4; the weeks printed as compensatory buying
SpikeWeeks(weeks_2024, real_2024, fake_2024) ==
    IF Len(weeks_2024) >= 8
    THEN {weeks_2024[k] : k \in Spikes(real_2024, fake_2024, 4)}
    ELSE {}

\* the result, from the buckets and the indices of the 2024 weeks among them
AnalyzeFrom(b, weeks_2024, real_2024, fake_2024) ==
    [all_weeks |-> b.periods, real_counts |-> b.real_counts, fake_counts |-> b.fake_counts,
     weeks_2024 |-> weeks_2024,
     spikes |-> SpikeWeeks(weeks_2024, real_2024, fake_2024),
     evidence |-> FALSE]
    @@ OverallPart(b.real_counts, b.fake_counts, Pearsonr(b.real_counts, b.fake_counts))
    @@ Analyze2024(real_2024, fake_2024, InverseWeeks(real_2024, fake_2024))

\* real_2024 = [weekly_real[w] for w in weeks_2024], and the same for the weeks and fake
Pick(s, ix) == [k \in 1..Len(ix) |-> s[ix[k]]]

AnalyzeBuckets(b, ix) ==
    AnalyzeFrom(b, Pick(b.periods, ix), Pick(b.real_counts, ix), Pick(b.fake_counts, ix))

AnalyzeWeekly(b) == AnalyzeBuckets(b, Weeks2024(b.periods))

\* analyze_weekly_correlation(fake_usernames): the returned dict and what is printed
analyze_weekly_correlation(accts, fake_usernames) ==
    AnalyzeWeekly(WeeklyBuckets(accts, fake_usernames))

\* generate_report: if correlation_data['correlation_2024'] and
\* correlation_data['correlation_2024'] < -0.2 (None and 0.0 are falsy, nan compares false)
ReportsEvidence(correlation_data) == RBelowMinus(correlation_data.correlation_2024, 2, 10)

------------------------------------------------------------------------------
\* Snapshots: the contents of full_forensic_enriched_data.jsonl

\* one JSON line
Rec(u, starred, created, status, susp, repos, followers, following) ==
    [username |-> u, starred_at |-> starred, account_created |-> created,
     status |-> status, is_suspicious |-> susp, public_repos |-> repos,
     followers |-> followers, following |-> following]

\* an account no detector flags, starred at the given time
Plain(u, starred) == Rec(u, starred, Iso(2022, 1, 1, 0, 0), "active", "false", 5, 50, 50)

\* the longest snapshot tail that follows the probed record (Spec)
MaxContext == 2
\* the most records of a clustering snapshot (SpecTemporal)
MaxEvents == 12
\* the most records of a bucketing snapshot (SpecWeekly)
MaxStars == 6

\* all sequences over S of length at most n
RECURSIVE SeqsUpTo(_, _)
SeqsUpTo(S, n) ==
    IF n = 0 THEN {<<>>}
    ELSE LET shorter == SeqsUpTo(S, n - 1)
         IN  shorter \cup {Append(q, x) : q \in {r \in shorter : Len(r) = n - 1}, x \in S}

\* the star time of the probed record
ProbeStar == Iso(2024, 3, 10, 12, 0)

\* account_created of the probed record: missing, unparsable, 365 days before the
\* star, 365 days and 12 hours, 366 days, 400 days, one minute after the star
ProbeCreated ==
    {AbsentTs, BadTs, Iso(2023, 3, 11, 12, 0), Iso(2023, 3, 11, 0, 0),
     Iso(2023, 3, 10, 12, 0), Iso(2023, 2, 4, 12, 0), Iso(2024, 3, 10, 12, 1)}

ProbeRecords ==
    {Rec(1, ProbeStar, c, f[1], f[2], r, a[1], a[2]) :
        c \in ProbeCreated,
        f \in {<<"active", "false">>, <<"absent", "absent">>, <<"absent", "true">>},
        r \in {NoVal, 0, 2, 3},
        a \in {<<NoVal, NoVal>>, <<4, 9>>, <<5, 9>>, <<4, 10>>}}

\* the records that may follow the probed one: a plain account; a deleted account
\* whose line has no timestamps; an old account with no activity that shares the
\* probed record's username and starred during the 2023 spike
ContextRecords ==
    {Plain(2, Iso(2024, 3, 10, 12, 30)),
     Rec(3, AbsentTs, AbsentTs, "deleted", "absent", NoVal, NoVal, NoVal),
     Rec(1, Iso(2023, 8, 30, 9, 0), Iso(2020, 1, 1, 0, 0), "active", "false", 0, 0, 0)}

GeneralSnapshots ==
    {<<>>} \cup {<<p>> \o c : p \in ProbeRecords, c \in SeqsUpTo(ContextRecords, MaxContext)}

\* the tuples of k counts whose sum is at most n
RECURSIVE CountsUpTo(_, _)
CountsUpTo(k, n) ==
    IF k = 0 THEN {<<>>}
    ELSE UNION {{Append(t, c) : t \in CountsUpTo(k - 1, n - c)} : c \in 0..n}

\* the list that holds index k counts[k] times, in the order of the indices
RECURSIVE Repeat(_, _)
Repeat(counts, k) ==
    IF k = 0 THEN <<>>
    ELSE Repeat(counts, k - 1) \o [i \in 1..counts[k] |-> k]

\* The clustering snapshots are made of six kinds of record, in this file order:
\* a plain account starred at 01:30, one at 23:30 the day before, one at 02:31, an
\* account marked suspicious starred at 00:30, a plain one at 00:30, and an old
\* account without activity starred at 00:30.  Usernames are the line numbers.
TemporalRecord(kind, u) ==
    CASE kind = 1 -> Plain(u, Iso(2024, 3, 11, 1, 30))
      [] kind = 2 -> Plain(u, Iso(2024, 3, 10, 23, 30))
      [] kind = 3 -> Plain(u, Iso(2024, 3, 11, 2, 31))
      [] kind = 4 -> Rec(u, Iso(2024, 3, 11, 0, 30), Iso(2022, 1, 1, 0, 0), "active", "true",
                         5, 50, 50)
      [] kind = 5 -> Plain(u, Iso(2024, 3, 11, 0, 30))
      [] OTHER    -> Rec(u, Iso(2024, 3, 11, 0, 30), Iso(2020, 1, 1, 0, 0), "active",
                         "false", 0, 0, 0)

SnapshotOfKinds(kinds) == [u \in 1..Len(kinds) |-> TemporalRecord(kinds[u], u)]

\* eleven stars five minutes apart from 10:00, then one 200 minutes after the first
ElevenThenOne ==
    [u \in 1..12 |->
        IF u <= 11 THEN Plain(u, Iso(2024, 3, 10, 10 + ((5 * (u - 1)) \div 60), (5 * (u - 1)) % 60))
        ELSE Plain(u, Iso(2024, 3, 10, 13, 20))]

\* nine stars seven minutes apart from 10:00: all within 60 minutes
NineWithinHour == [u \in 1..9 |-> Plain(u, Iso(2024, 3, 10, 10, 7 * (u - 1)))]

TemporalSnapshots ==
    {SnapshotOfKinds(Repeat(c, 6)) : c \in CountsUpTo(6, MaxEvents) \ {<<0, 0, 0, 0, 0, 0>>}}
    \cup {ElevenThenOne, NineWithinHour}

\* The bucketing snapshots are sub-lists of these stars, in this file order; the
\* accounts marked suspicious are the fake ones.  2024-01-01 and 2024-01-02 share ISO
\* week 2024-W01, 2024-12-30 is in ISO week 2025-W01, 2023-08-01 lies before the
\* spike of 2023-08-24..2023-09-14 and 2023-09-01 inside it.
Suspicious(u, starred) ==
    Rec(u, starred, Iso(2022, 1, 1, 0, 0), "active", "true", 5, 50, 50)

StarList ==
    << Plain(1, Iso(2024, 3, 4, 8, 0)),        Suspicious(2, Iso(2024, 3, 4, 9, 0)),
       Plain(3, Iso(2024, 12, 30, 8, 0)),      Suspicious(4, Iso(2024, 12, 30, 23, 59)),
       Plain(5, Iso(2024, 1, 1, 0, 0)),        Suspicious(6, Iso(2024, 1, 1, 12, 0)),
       Plain(7, Iso(2023, 8, 1, 8, 0)),        Plain(8, Iso(2024, 2, 26, 8, 0)),
       Suspicious(9, Iso(2024, 2, 26, 8, 0)),  Plain(10, Iso(2024, 1, 2, 8, 0)),
       Plain(11, Iso(2023, 9, 1, 8, 0)),       Plain(12, Iso(2024, 3, 18, 8, 0)),
       Plain(13, Iso(2024, 3, 11, 8, 0)) >>

WeeklySnapshots ==
    {SelectSeq(StarList, LAMBDA r : r.username \in U) :
        U \in {V \in SUBSET (1..Len(StarList)) : Cardinality(V) <= MaxStars}}

\* The series snapshots hold, for the k-th ISO week of 2024, a given number of real
\* stars (plain accounts, two hours apart on the Monday, so that no cluster forms)
\* and a given number of fake ones (accounts marked suspicious, at noon).
\* The Monday of the k-th ISO week of 2024 is the day 7 * (k - 1) + 1 of the year.
WeekMonday(k, h) ==
    LET n == 7 * (k - 1) + 1
    IN  IF n <= 31 THEN Iso(2024, 1, n, h, 0)
        ELSE IF n <= 60 THEN Iso(2024, 2, n - 31, h, 0)
        ELSE IF n <= 91 THEN Iso(2024, 3, n - 60, h, 0)
        ELSE Iso(2024, 4, n - 91, h, 0)

\* the records of week k for the counts <<real, fake>>
WeekRecords(k, counts) ==
    [j \in 1..counts[1] |-> Plain(100 * k + j, WeekMonday(k, 2 * (j - 1)))]
    \o [j \in 1..counts[2] |-> Suspicious(100 * k + 50 + j, WeekMonday(k, 12))]

\* the snapshot whose k-th week has the counts series[k]
RECURSIVE SeriesRecords(_, _)
SeriesRecords(series, k) ==
    IF k = 0 THEN <<>> ELSE SeriesRecords(series, k - 1) \o WeekRecords(k, series[k])

\* the longest series of freely chosen weeks (SpecSeries)
MaxWeeks == 5
\* the most weeks that follow a baseline of four (SpecSeries)
MaxTail == 4

\* the counts <<real, fake>> of a freely chosen week
WeekCounts == {<<10, 2>>, <<7, 6>>, <<9, 3>>, <<1, 1>>}

\* the counts of a week that follows the baseline: as the baseline, a drop of the
\* real stars with a rise of the fake ones, and the drop alone
TailCounts == {<<10, 2>>, <<3, 15>>, <<3, 2>>}

\* four weeks of 10 real and 2 fake stars
Baseline == <<<<10, 2>>, <<10, 2>>, <<10, 2>>, <<10, 2>>>>

SeriesSnapshots ==
    {SeriesRecords(w, Len(w)) : w \in SeqsUpTo(WeekCounts, MaxWeeks) \ {<<>>}}
    \cup {SeriesRecords(Baseline \o t, 4 + Len(t)) : t \in SeqsUpTo(TailCounts, MaxTail) \ {<<>>}}

\* The ordering snapshots hold the records of a clustering snapshot in several file
\* orders: as listed, reversed, each rotated by a few lines, and the odd lines
\* followed by the even ones.
Reverse(s) == [i \in 1..Len(s) |-> s[Len(s) + 1 - i]]
Rotate(s, k) == [i \in 1..Len(s) |-> s[((i - 1 + k) % Len(s)) + 1]]
OddsThenEvens(s) ==
    LET odds == (Len(s) + 1) \div 2
    IN  [i \in 1..Len(s) |-> IF i <= odds THEN s[2 * i - 1] ELSE s[2 * (i - odds)]]

\* the most stars that share one starred_at (SpecOrder)
MaxSameTime == 9
\* the most lines a snapshot is rotated by (SpecOrder)
MaxShift == 2

\* at most one record of every other kind around seven or more plain accounts that
\* starred at 00:30
OrderBases ==
    {SnapshotOfKinds(Repeat(<<c[1], c[2], c[3], c[4], n, c[5]>>, 6)) :
        c \in [1..5 -> 0..1], n \in 7..MaxSameTime}

OrderSnapshots ==
    UNION {{Rotate(b, k) : k \in 0..MaxShift} \cup {Rotate(Reverse(b), k) : k \in 0..MaxShift}
           \cup {OddsThenEvens(b)} : b \in OrderBases}

------------------------------------------------------------------------------
\* State

NoDet == [returned |-> FALSE, basic |-> {}, temporal |-> {}, dormant |-> {}, low |-> {},
          all |-> {}, clusters |-> <<>>, dormant_count |-> 0, low_count |-> 0,
          threshold_minutes |-> ThresholdMinutes]

NoWk == [returned |-> FALSE, all_weeks |-> <<>>, real_counts |-> <<>>, fake_counts |-> <<>>,
         correlation |-> NoCorrelation, regime |-> "none", weeks_2024 |-> <<>>,
         correlation_2024 |-> NoCorrelation, inverse_weeks_2024 |-> 0,
         same_direction_weeks |-> 0, inverse_pct_2024 |-> InversePct(0, 0),
         printed_2024 |-> "none", spikes |-> {}, evidence |-> FALSE, saved |-> FALSE]

NoDaily == [saved |-> FALSE, periods |-> <<>>, real_counts |-> <<>>, fake_counts |-> <<>>]

NoRep == [saved |-> FALSE, total |-> 0, basic_fake |-> 0, advanced_fake |-> 0,
          total_fake |-> 0, legitimate |-> 0]

\* the state before main() constructs the analyzer, for a set of snapshots and scripts
InitWith(snapshots, entries) ==
    /\ accounts \in snapshots
    /\ entry \in entries
    /\ pc = "new"
    /\ det = NoDet
    /\ wk = NoWk
    /\ daily = NoDaily
    /\ rep = NoRep

Init == InitWith(GeneralSnapshots, {"correlation", "timeline", "standalone"})

------------------------------------------------------------------------------
\* scripts/analyze_fake_real_correlation.py

\* print(f"Date range: {self.accounts[0]['starred_at'][:10]} to
\* {self.accounts[-1]['starred_at'][:10]}"): IndexError on no records, KeyError on a
\* first or last record without the key
DateRangeRaises(accts) ==
    \/ Len(accts) = 0
    \/ accts[1].starred_at.tag = "absent"
    \/ accts[Len(accts)].starred_at.tag = "absent"

\* CorrelationAnalyzer.__init__
CorrelationInit ==
    /\ entry = "correlation" /\ pc = "new"
    /\ pc' = IF DateRangeRaises(accounts) THEN "failed" ELSE "start"
    /\ UNCHANGED <<accounts, entry, det, wk, daily, rep>>

\* the value apply_full_detection returns
apply_full_detection(accts) ==
    LET basic_fake    == BasicFake(accts)
        temporal_fake == detect_temporal_clustering(accts, ThresholdMinutes)
        dormant_fake  == detect_dormant_accounts(accts)
        low_activity  == detect_low_activity(accts)
    IN  [NoDet EXCEPT !.returned = TRUE, !.basic = basic_fake, !.temporal = temporal_fake,
                      !.dormant = dormant_fake, !.low = low_activity,
                      !.all = Combine(basic_fake, temporal_fake, dormant_fake, low_activity)]

\* fake_usernames = analyzer.apply_full_detection()
ApplyFullDetection ==
    /\ entry = "correlation" /\ pc = "start"
    /\ IF TemporalRaises(accounts) \/ DormantRaises(accounts)
       THEN pc' = "failed" /\ det' = det
       ELSE pc' = "detected" /\ det' = apply_full_detection(accounts)
    /\ UNCHANGED <<accounts, entry, wk, daily, rep>>

\* correlation_data = analyzer.analyze_weekly_correlation(fake_usernames)
AnalyzeWeeklyCorrelation ==
    /\ entry = "correlation" /\ pc = "detected"
    /\ IF BucketRaises(accounts)
       THEN pc' = "failed" /\ wk' = wk
       ELSE /\ pc' = "analyzed"
            /\ wk' = [returned |-> TRUE, saved |-> FALSE]
                      @@ analyze_weekly_correlation(accounts, det.all)
    /\ UNCHANGED <<accounts, entry, det, daily, rep>>

\* analyzer.generate_report(correlation_data): the conclusion and correlation_analysis.json
GenerateReport ==
    /\ entry = "correlation" /\ pc = "analyzed"
    /\ pc' = "done"
    /\ wk' = [wk EXCEPT !.evidence = ReportsEvidence(wk), !.saved = TRUE]
    /\ UNCHANGED <<accounts, entry, det, daily, rep>>

------------------------------------------------------------------------------
\* scripts/create_star_timeline_graph.py

\* StarTimelineVisualizer.__init__
TimelineInit ==
    /\ entry = "timeline" /\ pc = "new"
    /\ pc' = IF DateRangeRaises(accounts) THEN "failed" ELSE "start"
    /\ UNCHANGED <<accounts, entry, det, wk, daily, rep>>

\* the value apply_advanced_detection returns
apply_advanced_detection(accts) ==
    LET basic_fake_usernames == BasicFake(accts)
        temporal_fake     == timeline_detect_temporal_clustering(accts, ThresholdMinutes)
        dormant_fake      == timeline_detect_dormant_accounts(accts)
        low_activity_fake == timeline_detect_low_activity(accts)
    IN  [NoDet EXCEPT !.returned = TRUE, !.basic = basic_fake_usernames,
                      !.temporal = temporal_fake, !.dormant = dormant_fake,
                      !.low = low_activity_fake,
                      !.all = Combine(basic_fake_usernames, temporal_fake, dormant_fake,
                                      low_activity_fake)]

\* fake_usernames = viz.apply_advanced_detection()
ApplyAdvancedDetection ==
    /\ entry = "timeline" /\ pc = "start"
    /\ IF TemporalRaises(accounts) \/ DormantRaises(accounts)
       THEN pc' = "failed" /\ det' = det
       ELSE pc' = "detected" /\ det' = apply_advanced_detection(accounts)
    /\ UNCHANGED <<accounts, entry, wk, daily, rep>>

\* spike_start = datetime(2023, 8, 24).date(); spike_end = datetime(2023, 9, 14).date()
SpikeStart == Ymd2Ord(2023, 8, 24)
SpikeEnd == Ymd2Ord(2023, 9, 14)

\* create_summary_stats divides by pre_total, spike_total and post_total: it raises
\* ZeroDivisionError when one of the three periods holds no date
SummaryStatsRaises(dates) ==
    \/ ~\E i \in 1..Len(dates) : dates[i] < SpikeStart
    \/ ~\E i \in 1..Len(dates) : SpikeStart <= dates[i] /\ dates[i] <= SpikeEnd
    \/ ~\E i \in 1..Len(dates) : dates[i] > SpikeEnd

\* viz.create_timeline_graph(fake_usernames): the graph is saved, then the summary
\* statistics are printed
CreateTimelineGraph ==
    /\ entry = "timeline" /\ pc = "detected"
    /\ IF BucketRaises(accounts)
       THEN pc' = "failed" /\ daily' = daily
       ELSE /\ daily' = [saved |-> TRUE] @@ DailyBuckets(accounts, det.all)
            /\ pc' = IF SummaryStatsRaises(daily'.periods) THEN "failed" ELSE "done"
    /\ UNCHANGED <<accounts, entry, det, wk, rep>>

------------------------------------------------------------------------------
\* scripts/run_advanced_on_collected.py

\* AdvancedAnalyzer.__init__: loads the records and splits them; it reads no field
\* of a record beyond is_suspicious and status
AdvancedInit ==
    /\ entry = "standalone" /\ pc = "new"
    /\ pc' = "start"
    /\ UNCHANGED <<accounts, entry, det, wk, daily, rep>>

\* temporal = analyzer.analyze_temporal_clustering()
AnalyzeTemporalClustering ==
    /\ entry = "standalone" /\ pc = "start"
    /\ IF TemporalRaises(accounts)
       THEN pc' = "failed" /\ det' = det
       ELSE /\ pc' = "temporal"
            /\ LET t == analyze_temporal_clustering(accounts, ThresholdMinutes)
               IN  det' = [det EXCEPT !.clusters = t.clusters,
                                      !.temporal = t.suspicious_accounts]
    /\ UNCHANGED <<accounts, entry, wk, daily, rep>>

\* the values a caller passes as threshold_minutes: the default, zero and a negative
\* one
CallerThresholds == {ThresholdMinutes, 0, 0 - 1}

\* analyzer.analyze_temporal_clustering(threshold_minutes): the method takes the
\* threshold as a parameter and uses it as given
AnalyzeTemporalClusteringWith ==
    \E threshold_minutes \in CallerThresholds :
        /\ entry = "standalone" /\ pc = "start"
        /\ IF TemporalRaises(accounts)
           THEN pc' = "failed" /\ det' = det
           ELSE /\ pc' = "temporal"
                /\ LET t == analyze_temporal_clustering(accounts, threshold_minutes)
                   IN  det' = [det EXCEPT !.clusters = t.clusters,
                                          !.temporal = t.suspicious_accounts,
                                          !.threshold_minutes = threshold_minutes]
        /\ UNCHANGED <<accounts, entry, wk, daily, rep>>

\* dormant = analyzer.analyze_dormant_accounts()
AnalyzeDormantAccounts ==
    /\ entry = "standalone" /\ pc = "temporal"
    /\ IF DormantRaises(accounts)
       THEN pc' = "failed" /\ det' = det
       ELSE /\ pc' = "dormant"
            /\ LET d == analyze_dormant_accounts(accounts)
               IN  det' = [det EXCEPT !.dormant = d.suspicious_accounts,
                                      !.dormant_count = d.suspicious_count]
    /\ UNCHANGED <<accounts, entry, wk, daily, rep>>

\* activity = analyzer.analyze_activity_diversity()
AnalyzeActivityDiversity ==
    /\ entry = "standalone" /\ pc = "dormant"
    /\ pc' = "activity"
    /\ LET a == analyze_activity_diversity(accounts)
       IN  det' = [det EXCEPT !.low = a.suspicious_accounts, !.low_count = a.suspicious_count]
    /\ UNCHANGED <<accounts, entry, wk, daily, rep>>

\* totals that add the sizes of the three sets
advanced_generate_report_summed(accts, temporal, dormant, activity) ==
    LET total          == Len(accts)
        basic_fake     == Len(SelectSeq(accts, BasicFlagged))
        advanced_fake  == Cardinality(temporal) + Cardinality(dormant) + Cardinality(activity)
        total_fake     == basic_fake + advanced_fake
    IN  [saved |-> TRUE, total |-> total, basic_fake |-> basic_fake,
         advanced_fake |-> advanced_fake, total_fake |-> total_fake,
         legitimate |-> total - total_fake]

\* the totals of AdvancedAnalyzer.generate_report
advanced_generate_report(accts, temporal, dormant, activity) ==
    LET all_suspicious == temporal \cup dormant \cup activity
        total          == Len(accts)
        basic_fake     == Len(SelectSeq(accts, BasicFlagged))
        advanced_fake  == Cardinality(all_suspicious)
        total_fake     == basic_fake + advanced_fake
    IN  [saved |-> TRUE, total |-> total, basic_fake |-> basic_fake,
         advanced_fake |-> advanced_fake, total_fake |-> total_fake,
         legitimate |-> total - total_fake]

\* analyzer.generate_report(temporal, dormant, activity): the date range line reads
\* the first and last records' starred_at, the percentages divide by the total
AdvancedGenerateReport ==
    /\ entry = "standalone" /\ pc = "activity"
    /\ IF DateRangeRaises(accounts)
       THEN pc' = "failed" /\ rep' = rep /\ det' = det
       ELSE /\ pc' = "done"
            /\ rep' = advanced_generate_report(accounts, det.temporal, det.dormant, det.low)
            /\ det' = det
    /\ UNCHANGED <<accounts, entry, wk, daily>>

------------------------------------------------------------------------------
\* Specifications

NextCorrelation ==
    \/ CorrelationInit
    \/ ApplyFullDetection
    \/ AnalyzeWeeklyCorrelation
    \/ GenerateReport

NextTimeline ==
    \/ TimelineInit
    \/ ApplyAdvancedDetection
    \/ CreateTimelineGraph

NextStandalone ==
    \/ AdvancedInit
    \/ AnalyzeTemporalClustering
    \/ AnalyzeDormantAccounts
    \/ AnalyzeActivityDiversity
    \/ AdvancedGenerateReport

Next == NextCorrelation \/ NextTimeline \/ NextStandalone

\* every script on the short snapshots that vary one record's fields
Spec == Init /\ [][Next]_vars

\* the three copies of the detection ensemble, on the clustering snapshots
InitTemporal == InitWith(TemporalSnapshots, {"correlation", "timeline", "standalone"})

NextDetect ==
    \/ CorrelationInit
    \/ ApplyFullDetection
    \/ TimelineInit
    \/ ApplyAdvancedDetection
    \/ AdvancedInit
    \/ AnalyzeTemporalClustering

SpecTemporal == InitTemporal /\ [][NextDetect]_vars

\* the weekly and the daily bucketing, on the bucketing snapshots
InitWeekly == InitWith(WeeklySnapshots, {"correlation", "timeline"})

NextBuckets == NextCorrelation \/ NextTimeline

SpecWeekly == InitWeekly /\ [][NextBuckets]_vars

\* the correlation script on the series snapshots
InitSeries == InitWith(SeriesSnapshots, {"correlation"})

SpecSeries == InitSeries /\ [][NextCorrelation]_vars

\* the ensemble of the correlation and timeline scripts, on the ordering snapshots
InitOrder == InitWith(OrderSnapshots, {"correlation", "timeline"})

NextEnsemble ==
    \/ CorrelationInit
    \/ ApplyFullDetection
    \/ TimelineInit
    \/ ApplyAdvancedDetection

SpecOrder == InitOrder /\ [][NextEnsemble]_vars

\* the temporal analysis of the standalone script called with a threshold, on the
\* ordering snapshots
InitThreshold == InitWith(OrderSnapshots, {"standalone"})

NextThreshold ==
    \/ AdvancedInit
    \/ AnalyzeTemporalClusteringWith

SpecThreshold == InitThreshold /\ [][NextThreshold]_vars

\* the standalone script from construction to its report, on the ordering snapshots
InitReport == InitWith(OrderSnapshots, {"standalone"})

SpecReport == InitReport /\ [][NextStandalone]_vars

------------------------------------------------------------------------------
\* Properties

\* the records that are not basic-flagged, by line number
Legit == {i \in 1..Len(accounts) :
             accounts[i].is_suspicious # "true" /\ accounts[i].status # "deleted"}

\* the ensemble of the correlation or the timeline script has returned its set
EnsembleReturned == entry \in {"correlation", "timeline"} /\ det.returned

\* the temporal detector of the running script has returned
TemporalReturned ==
    EnsembleReturned \/ (entry = "standalone" /\ pc \in {"temporal", "dormant", "activity", "done"})

\* the dormant detector of the running script has returned
DormantReturned ==
    EnsembleReturned \/ (entry = "standalone" /\ pc \in {"dormant", "activity", "done"})

\* the low-activity detector of the running script has returned
LowActivityReturned ==
    EnsembleReturned \/ (entry = "standalone" /\ pc \in {"activity", "done"})

\* C1: the fake set the ensemble returns holds the username of every record with
\* is_suspicious true or status 'deleted'.
C1_EnsembleHoldsBasic ==
    EnsembleReturned =>
        \A i \in 1..Len(accounts) :
            (accounts[i].is_suspicious = "true" \/ accounts[i].status = "deleted")
                => accounts[i].username \in det.all

\* C1 witness: the ensemble returned a set that holds a basic-flagged username and a
\* username only another detector flags.
C1_Witness ==
    /\ EnsembleReturned
    /\ \E i \in 1..Len(accounts) : accounts[i].status = "deleted"
    /\ det.all \ det.basic # {}

\* minutes from 0001-01-01 00:00 to the star of line i
StarMinute(i) ==
    LET s == accounts[i].starred_at IN Ymd2Ord(s.y, s.mo, s.d) * 1440 + s.h * 60 + s.mi

\* the pairs <<line, star minute>> of the records that are not basic-flagged
LegitStars == {<<i, StarMinute(i)>> : i \in Legit}

\* times a and b lie in one run of the times T: every time of T from the earlier up
\* to (not including) the later is followed by a time of T within 60 minutes
SameRun(T, a, b) ==
    \A t \in T :
        ((a <= t /\ t < b) \/ (b <= t /\ t < a)) => \E t2 \in T : t < t2 /\ t2 <= t + 60

\* the stars of P whose maximal run, among the times T of P, holds 10 or more stars
InLongRuns(P, T) ==
    {p \in P : Cardinality({q \in P : SameRun(T, p[2], q[2])}) >= 10}

\* the usernames of the members of the maximal runs of 10 or more stars
RunMembers(P) == {accounts[p[1]].username : p \in InLongRuns(P, {q[2] : q \in P})}
MembersOfLongRuns == RunMembers(LegitStars)

\* C2: the temporal detector flags exactly the members of the maximal runs (gaps of
\* at most 60 minutes, 0 and 60 included) of 10 or more stars that are not
\* basic-flagged; eleven stars 5 minutes apart and one at 200 minutes give the
\* first eleven, nine stars within the hour give none.
C2_TemporalFlagsLongRuns ==
    TemporalReturned =>
        /\ det.temporal = MembersOfLongRuns
        /\ accounts = ElevenThenOne => det.temporal = 1..11
        /\ accounts = NineWithinHour => det.temporal = {}

\* C2 witness: a run of exactly ten stars closed by equal times and a 60-minute gap
\* is flagged while a later star, 61 minutes on, is not.
C2_Witness ==
    /\ TemporalReturned
    /\ Cardinality(det.temporal) = 10
    /\ \E i \in Legit, j \in Legit :
          /\ StarMinute(j) = StarMinute(i) + 60
          /\ {accounts[i].username, accounts[j].username} \subseteq det.temporal
    /\ \E k \in Legit : accounts[k].username \notin det.temporal

\* whole days from account_created to starred_at exceed 365: at least 366 days
OlderThanAYear(acc) ==
    LET s == acc.starred_at
        c == acc.account_created
    IN  (Ymd2Ord(s.y, s.mo, s.d) * 1440 + s.h * 60 + s.mi)
        - (Ymd2Ord(c.y, c.mo, c.d) * 1440 + c.h * 60 + c.mi) >= 366 * 1440

FewRepos(acc) == acc.public_repos = NoVal \/ acc.public_repos < 3

\* C3: the dormant detector flags a record that is not basic-flagged exactly when
\* its account is more than 365 whole days old at the star and has fewer than 3
\* public repos (none when the field is missing).
C3_DormantIffOldAndFewRepos ==
    DormantReturned =>
        det.dormant = {accounts[i].username :
                          i \in {j \in Legit : OlderThanAYear(accounts[j]) /\ FewRepos(accounts[j])}}

\* C3 witness: a 366-day-old account with 2 repos is flagged.
C3_Witness ==
    /\ DormantReturned
    /\ Len(accounts) = 1
    /\ accounts[1].account_created = Iso(2023, 3, 10, 12, 0)
    /\ accounts[1].public_repos = 2
    /\ det.dormant = {1}

\* a missing count is 0
Few(v, limit) == v = NoVal \/ v < limit

\* C4: the low-activity detector flags a record that is not basic-flagged exactly
\* when it has no public repos, fewer than 5 followers and fewer than 10 following,
\* a missing field counting as 0.
C4_LowActivityIff ==
    LowActivityReturned =>
        det.low = {accounts[i].username :
                      i \in {j \in Legit : /\ Few(accounts[j].public_repos, 1)
                                           /\ Few(accounts[j].followers, 5)
                                           /\ Few(accounts[j].following, 10)}}

\* C4 witness: repos 0, followers 4, following 9 is flagged.
C4_Witness ==
    /\ LowActivityReturned
    /\ Len(accounts) = 1
    /\ accounts[1].public_repos = 0 /\ accounts[1].followers = 4 /\ accounts[1].following = 9
    /\ det.low = {1}

\* C5: a record that is not basic-flagged and has no account_created, or one later
\* than starred_at, is skipped by the dormant detector and the run goes on: with
\* every starred_at readable and every account_created readable or missing, the
\* detection of the correlation script does not fail.
C5_DormantSkipsUnusableCreated ==
    (/\ entry = "correlation"
     /\ Len(accounts) > 0
     /\ \A i \in 1..Len(accounts) : accounts[i].starred_at.tag = "iso"
     /\ \A i \in Legit : accounts[i].account_created.tag \in {"iso", "absent"})
        => pc # "failed"

\* the records that are basic-flagged, by line number
Flagged == (1..Len(accounts)) \ Legit

\* C6: each of the temporal, dormant and low-activity detectors evaluates every
\* record that is not basic-flagged, whatever the other two flag: such a record is
\* flagged by every detector whose condition it meets and counts toward its run,
\* and no basic-flagged record is flagged by or counted in any of the three
\* (usernames are unique in these snapshots).
C6_DetectorsShareTheBasicPool ==
    /\ TemporalReturned =>
          /\ \A p \in InLongRuns(LegitStars, {q[2] : q \in LegitStars}) :
                accounts[p[1]].username \in det.temporal
          /\ \A i \in Flagged : accounts[i].username \notin det.temporal
          /\ det.temporal # {} => Cardinality(Legit) >= 10
    /\ EnsembleReturned =>
          /\ \A i \in Legit :
                /\ (OlderThanAYear(accounts[i]) /\ FewRepos(accounts[i]))
                      => accounts[i].username \in det.dormant
                /\ (/\ Few(accounts[i].public_repos, 1)
                    /\ Few(accounts[i].followers, 5)
                    /\ Few(accounts[i].following, 10))
                      => accounts[i].username \in det.low
          /\ \A i \in Flagged : accounts[i].username \notin det.dormant \cup det.low

\* C6 witness: a run of exactly ten stars is flagged, one of its members is also
\* flagged as dormant and as low-activity, and a basic-flagged star lies inside it.
C6_Witness ==
    /\ EnsembleReturned
    /\ Cardinality(det.temporal) = 10
    /\ det.temporal \cap det.dormant \cap det.low # {}
    /\ Flagged # {}

\* the ordinal of the Monday of the week of a record's star
MondayOf(acc) ==
    LET o == Ymd2Ord(acc.starred_at.y, acc.starred_at.mo, acc.starred_at.d)
    IN  o - ((o + 6) % 7)

\* the lines whose star falls in the period with this key
InPeriod(PeriodOf(_), key) == {i \in 1..Len(accounts) : PeriodOf(accounts[i]) = key}

\* the buckets b count, period by period, the fake and the other stars of the period
CountsMatch(b, PeriodOf(_)) ==
    /\ \A k \in 1..Len(b.periods) :
          /\ b.fake_counts[k] = Cardinality({i \in InPeriod(PeriodOf, b.periods[k]) :
                                                accounts[i].username \in det.all})
          /\ b.real_counts[k] = Cardinality({i \in InPeriod(PeriodOf, b.periods[k]) :
                                                accounts[i].username \notin det.all})
    /\ SumSeq(b.real_counts) + SumSeq(b.fake_counts) = Len(accounts)

\* the weekly buckets of the result, as periods and counts
WeeklyResult ==
    [periods |-> wk.all_weeks, real_counts |-> wk.real_counts, fake_counts |-> wk.fake_counts]

\* C7: bucketing counts every star exactly once, in the bucket of its day (daily) or
\* of its ISO year and week (weekly), as fake when its username is in the fake set
\* and as real otherwise; the counts of all buckets add up to the number of stars,
\* and two stars on one day give one bucket of count 2.
C7_BucketsCountEveryStarOnce ==
    /\ wk.returned => CountsMatch(WeeklyResult, WeekKey)
    /\ daily.saved => CountsMatch(daily, DateOf)
    /\ (daily.saved /\ accounts = <<StarList[5], StarList[6]>>)
          => /\ Len(daily.periods) = 1
             /\ daily.real_counts[1] + daily.fake_counts[1] = 2

\* C7 witness: the timeline script bucketed two stars of 2024-01-01, one of them fake.
C7_Witness ==
    /\ daily.saved
    /\ accounts = <<StarList[5], StarList[6]>>
    /\ daily.fake_counts = <<1>>

\* no bucket is empty
NoEmptyBucket(b) == \A k \in 1..Len(b.periods) : b.real_counts[k] + b.fake_counts[k] > 0

\* C8: the bucket sequence is strictly ascending by period start (the weeks of
\* consecutive weekly buckets follow each other in time), holds each period once
\* and holds no period without a star.
C8_BucketsAscendWithoutGaps ==
    /\ wk.returned =>
          /\ NoEmptyBucket(WeeklyResult)
          /\ \A k \in 1..(Len(wk.all_weeks) - 1) :
                \A i \in InPeriod(WeekKey, wk.all_weeks[k]),
                   j \in InPeriod(WeekKey, wk.all_weeks[k + 1]) :
                      MondayOf(accounts[i]) < MondayOf(accounts[j])
          /\ \A k, l \in 1..Len(wk.all_weeks) : k # l => wk.all_weeks[k] # wk.all_weeks[l]
    /\ daily.saved =>
          /\ NoEmptyBucket(daily)
          /\ \A k \in 1..(Len(daily.periods) - 1) : daily.periods[k] < daily.periods[k + 1]

\* C8 witness: weekly buckets that hold 2023-W31, 2024-W09, 2024-W10 and 2025-W01.
C8_Witness ==
    /\ wk.returned
    /\ {WeekKey(StarList[7]), WeekKey(StarList[8]), WeekKey(StarList[1]), WeekKey(StarList[3])}
          \subseteq Range(wk.all_weeks)

\* the weeks that hold a star
StarWeeks == {MondayOf(accounts[i]) : i \in 1..Len(accounts)}

\* the weeks of ISO year 2024 that hold a star
StarWeeks2024 ==
    {MondayOf(accounts[i]) :
        i \in {j \in 1..Len(accounts) :
                  IsoCalendar(accounts[j].starred_at.y, DateOf(accounts[j]))[1] = 2024}}

\* C9: analyze_weekly_correlation computes the overall correlation exactly when the
\* weekly series has more than 2 periods; with 1 or 2 periods it returns None for
\* it together with the rest of the result, and it does not raise.
C9_OverallCorrelationIffMoreThanTwo ==
    /\ wk.returned =>
          /\ wk.correlation.tag = "r" <=> Cardinality(StarWeeks) > 2
          /\ wk.correlation.tag # "r" => wk.correlation = NoCorrelation
          /\ Len(wk.all_weeks) = Cardinality(StarWeeks)
          /\ Len(wk.real_counts) = Len(wk.all_weeks)
          /\ Len(wk.fake_counts) = Len(wk.all_weeks)
    /\ (entry = "correlation" /\ det.returned /\ pc # "detected") => wk.returned

\* C9 witness: three stars in two weeks: the result is returned without a correlation.
C9_Witness ==
    /\ wk.returned
    /\ Len(accounts) = 3
    /\ Len(wk.all_weeks) = 2
    /\ wk.correlation = NoCorrelation

\* C10 as claimed: the 2024 correlation is computed exactly when the 2024 sub-range
\* has more than 2 periods.
C10_SubrangeUsesOverallRule ==
    wk.returned => (wk.correlation_2024.tag = "r" <=> Cardinality(StarWeeks2024) > 2)

\* C10 as amended: the 2024 correlation is computed exactly when the 2024 sub-range
\* has more than 4 periods, and is None with 4 periods or fewer.
C10_SubrangeIffMoreThanFour ==
    wk.returned =>
        /\ wk.correlation_2024.tag = "r" <=> Cardinality(StarWeeks2024) > 4
        /\ wk.correlation_2024.tag # "r" => wk.correlation_2024 = NoCorrelation
        /\ Len(wk.weeks_2024) = Cardinality(StarWeeks2024)

\* C10 witness: five weeks of 2024 hold a star and the 2024 correlation is computed.
C10_Witness ==
    /\ wk.returned
    /\ Cardinality(StarWeeks2024) = 5
    /\ wk.correlation_2024.tag = "r"

\* the weeks of ISO year 2024 that hold a star, in time order, as their Mondays
Sub2024 == SeqOfSet(StarWeeks2024)

\* the stars of the week of Monday m that are not in the fake set, and those that are
RealIn(m) ==
    Cardinality({i \in 1..Len(accounts) :
                    MondayOf(accounts[i]) = m /\ accounts[i].username \notin det.all})
FakeIn(m) ==
    Cardinality({i \in 1..Len(accounts) :
                    MondayOf(accounts[i]) = m /\ accounts[i].username \in det.all})

Sign(n) == IF n > 0 THEN 1 ELSE IF n < 0 THEN -1 ELSE 0

\* the pairs (k-1, k) of the weeks whose real and fake deltas have strictly opposite
\* signs
OppositePairs(weeks) ==
    {k \in 2..Len(weeks) :
        Sign(RealIn(weeks[k]) - RealIn(weeks[k-1]))
            * Sign(FakeIn(weeks[k]) - FakeIn(weeks[k-1])) = -1}

\* the reported count is this one and the reported percentage is the count over
\* length - 1, times 100 (0 when length - 1 is 0)
ReportsCount(length, count) ==
    /\ wk.inverse_weeks_2024 = count
    /\ IF length - 1 = 0 THEN wk.inverse_pct_2024.num = 0
       ELSE wk.inverse_pct_2024.num * (length - 1) = count * 100 * wk.inverse_pct_2024.den

ReportsOppositePairs(weeks) == ReportsCount(Len(weeks), Cardinality(OppositePairs(weeks)))

\* nothing is reported for a sub-range of 4 periods or fewer
ReportsLongSubrange(weeks) ==
    IF Len(weeks) > 4 THEN ReportsOppositePairs(weeks) ELSE ReportsCount(Len(weeks), 0)

\* the snapshot of a series of weekly counts
SeriesOf(series) == SeriesRecords(series, Len(series))

\* C11 as claimed: for any sub-range the reported inverse-week count is the number
\* of consecutive pairs whose real and fake deltas have strictly opposite signs,
\* and the percentage is the count over length - 1, times 100 (0 for one period).
C11_InverseWeeksOfAnySubrange ==
    wk.returned => ReportsOppositePairs(Sub2024)

\* C11 as amended: for a sub-range of more than 4 periods the reported count is the
\* number of consecutive pairs with strictly opposite deltas and the percentage is
\* the count over length - 1, times 100; for 4 periods or fewer both are 0.  The
\* sub-range real=[10,7,9,7,9], fake=[2,6,3,6,3] gives 4 and 100.
C11_InverseWeeksOfLongSubrange ==
    wk.returned =>
        /\ ReportsLongSubrange(Sub2024)
        /\ accounts = SeriesOf(<<<<10, 2>>, <<7, 6>>, <<9, 3>>, <<7, 6>>, <<9, 3>>>>)
              => ReportsCount(5, 4)

\* C11 witness: six weeks after which one pair is counted, while the pair in which
\* only the fake count changes is not.
C11_Witness ==
    /\ wk.returned
    /\ accounts = SeriesOf(Baseline \o <<<<3, 15>>, <<3, 2>>>>)
    /\ wk.inverse_weeks_2024 = 1
    /\ wk.inverse_pct_2024.num = 20 * wk.inverse_pct_2024.den

\* the sum of the counts of the four weeks before week k
RECURSIVE RealBefore(_, _, _)
RealBefore(weeks, k, back) ==
    IF back = 0 THEN 0 ELSE RealIn(weeks[k - back]) + RealBefore(weeks, k, back - 1)
RECURSIVE FakeBefore(_, _, _)
FakeBefore(weeks, k, back) ==
    IF back = 0 THEN 0 ELSE FakeIn(weeks[k - back]) + FakeBefore(weeks, k, back - 1)

\* the weeks from the fifth on whose real count is more than 5 below the mean of the
\* four weeks before and whose fake count is more than 10 above theirs
CompensatoryWeeks(weeks) ==
    {weeks[k] : k \in {j \in 5..Len(weeks) :
                          /\ 4 * RealIn(weeks[j]) - RealBefore(weeks, j, 4) < -5 * 4
                          /\ 4 * FakeIn(weeks[j]) - FakeBefore(weeks, j, 4) > 10 * 4}}

\* the weeks reported as compensatory buying, as their Mondays
ReportedSpikes ==
    {MondayOf(accounts[i]) : i \in {j \in 1..Len(accounts) : WeekKey(accounts[j]) \in wk.spikes}}

\* spikes are reported from 8 periods on
ReportsLongSpikes(weeks) ==
    ReportedSpikes = IF Len(weeks) >= 8 THEN CompensatoryWeeks(weeks) ELSE {}

\* C12 as claimed: with window 4, every period i >= 4 of the sub-range is examined
\* and reported if and only if its real count is more than 5 below the mean of the
\* four periods before it and its fake count more than 10 above theirs; four periods
\* of real=10, fake=2 followed by real=3, fake=15 report the fifth.
C12_SpikeOfAnySubrange ==
    wk.returned => ReportedSpikes = CompensatoryWeeks(Sub2024)

\* C12 as amended: when the sub-range has 8 periods or more, every period i >= 4 is
\* examined and reported if and only if its real count is more than 5 below the mean
\* of the four periods before it and its fake count more than 10 above theirs; with
\* fewer than 8 periods nothing is reported.  Four periods of real=10, fake=2, then
\* real=3, fake=15, then three periods of real=10, fake=2 report the fifth period
\* only; eight periods of real=10, fake=2 report nothing.
C12_SpikeOfLongSubrange ==
    wk.returned =>
        /\ ReportsLongSpikes(Sub2024)
        /\ accounts = SeriesOf(Baseline \o <<<<3, 15>>, <<10, 2>>, <<10, 2>>, <<10, 2>>>>)
              => wk.spikes = {FormatWeekKey(<<2024, 5>>)}
        /\ accounts = SeriesOf(Baseline \o Baseline) => wk.spikes = {}

\* C12 witness: the fifth of eight periods is reported.
C12_Witness ==
    /\ wk.returned
    /\ accounts = SeriesOf(Baseline \o <<<<3, 15>>, <<10, 2>>, <<10, 2>>, <<10, 2>>>>)
    /\ wk.spikes = {FormatWeekKey(<<2024, 5>>)}

\* the reported inverse-week percentage is above p
PctAbove(p) == wk.inverse_pct_2024.num > p * wk.inverse_pct_2024.den

\* C13: a run yields one narrative verdict that combines both inputs: strong
\* evidence is reported only when the 2024 correlation is below -0.2 and the
\* inverse-week percentage above 40, moderate evidence only when the correlation is
\* below -0.2 and the percentage above 25 and not above 40, and the conclusion of
\* the report names evidence only with one of the two; no evidence verdict is
\* reported when the correlation is -0.2 or more, or undefined.
C13_VerdictCombinesBoth ==
    wk.returned =>
        /\ wk.printed_2024 = "strong"
              => RBelowMinus(wk.correlation_2024, 2, 10) /\ PctAbove(40)
        /\ wk.printed_2024 = "moderate"
              => RBelowMinus(wk.correlation_2024, 2, 10) /\ PctAbove(25) /\ ~PctAbove(40)
        /\ wk.evidence => wk.printed_2024 \in {"strong", "moderate"}

\* a record whose starred_at is missing or unparsable
UnreadableStar == \E i \in 1..Len(accounts) : ~Parsable(accounts[i].starred_at)

\* C14: when any record of the snapshot, basic-flagged or not, has a missing or
\* unparsable starred_at, the run of each of the three scripts does not complete and
\* writes no report or result file.
C14_UnreadableStarAborts ==
    UnreadableStar => (pc # "done" /\ ~wk.saved /\ ~daily.saved /\ ~rep.saved)

\* the records of the snapshot in the order of their usernames (unique here)
RECURSIVE ByUsername(_)
ByUsername(S) ==
    IF S = {} THEN <<>>
    ELSE LET x == CHOOSE y \in S : \A z \in S : y.username <= z.username
         IN  <<x>> \o ByUsername(S \ {x})

\* the fake set the script of this run computes on a snapshot
EnsembleOn(accts) ==
    IF entry = "correlation" THEN apply_full_detection(accts).all
    ELSE apply_advanced_detection(accts).all

\* C15: the fake set of the ensemble depends on the set of records only: the set
\* returned for the snapshot is the one the ensemble gives for the same records in
\* username order, in reversed file order and in file order rotated by one line,
\* also when several stars share one starred_at.
C15_FakeSetIgnoresFileOrder ==
    EnsembleReturned =>
        /\ det.all = EnsembleOn(ByUsername(Range(accounts)))
        /\ det.all = EnsembleOn(Reverse(accounts))
        /\ det.all = EnsembleOn(Rotate(accounts, 1))

\* C15 witness: a flagged run of ten stars, nine of them at one starred_at, read
\* from a file that does not list them in time order.
C15_Witness ==
    /\ EnsembleReturned
    /\ Cardinality(det.temporal) = 10
    /\ Cardinality({i \in 1..Len(accounts) :
                       accounts[i].starred_at = Iso(2024, 3, 11, 0, 30)}) >= 9
    /\ \E i \in 1..(Len(accounts) - 1) :
           ~TsLeq([ts |-> FromIso(accounts[i].starred_at)],
                  [ts |-> FromIso(accounts[i + 1].starred_at)])

\* C16: a negative gap threshold makes the run fail before any record is processed:
\* the temporal analysis never returns from a call with an invalid threshold.
C16_InvalidThresholdFails ==
    det.threshold_minutes < 0 => pc = "failed"

\* the standalone temporal analysis has returned its clusters
ClustersReported == entry = "standalone" /\ pc = "temporal"

\* minutes from the first to the last star of a cluster
Duration(cluster) == DiffMinutes(cluster[Len(cluster)].ts, cluster[1].ts)

UniqueUsernames ==
    \A i, j \in 1..Len(accounts) : accounts[i].username = accounts[j].username => i = j

\* both copies of the ensemble run to their end on the snapshot
EnsembleRuns == ~TemporalRaises(accounts) /\ ~DormantRaises(accounts)

\* C18: on a snapshot of unique usernames the standalone report's total_fake is the
\* size of the fake set that apply_full_detection and apply_advanced_detection
\* return on it, it is at most the number of records, and the legitimate count is
\* not negative.
C18_ReportCountsTheFakeSet ==
    (rep.saved /\ UniqueUsernames) =>
        /\ EnsembleRuns
        /\ rep.total_fake = Cardinality(apply_full_detection(accounts).all)
        /\ rep.total_fake = Cardinality(apply_advanced_detection(accounts).all)
        /\ rep.total_fake <= rep.total
        /\ rep.legitimate >= 0

\* C18 witness: a saved report that counts a basic-flagged record and a cluster of
\* ten, one member of which is in the dormant and the low-activity set too, once
\* each.
C18_Witness ==
    /\ rep.saved /\ UniqueUsernames
    /\ rep.basic_fake = 1
    /\ Cardinality(det.temporal) = 10
    /\ det.temporal \cap det.dormant \cap det.low # {}
    /\ rep.total_fake = 11
    /\ rep.total_fake < rep.total

\* the lines whose star is of 1 January 2024 or later
From2024 == {i \in 1..Len(accounts) : DateOf(accounts[i]) >= Ymd2Ord(2024, 1, 1)}

\* C19: the sub-range of the 2024 period analysis is a contiguous slice of the
\* ordered weekly buckets, it holds every bucket with a star of 1 January 2024 or
\* later, and no bucket whose stars are all earlier.
C19_SubrangeIsFrom2024Onwards ==
    wk.returned =>
        /\ \E lo \in 1..(Len(wk.all_weeks) + 1) :
               wk.weeks_2024 = SubSeq(wk.all_weeks, lo, lo + Len(wk.weeks_2024) - 1)
        /\ \A i \in From2024 : WeekKey(accounts[i]) \in Range(wk.weeks_2024)
        /\ \A k \in 1..Len(wk.weeks_2024) :
               \E i \in From2024 : WeekKey(accounts[i]) = wk.weeks_2024[k]

====
